---- MODULE Spec2Model ----
(***************************************************************************)
(* Click2Eat report service: the five admin report handlers of             *)
(* controller/report.controller.js, the adminOnly middleware in front of   *)
(* them, and the MongoDB aggregation pipelines they run over the orders,   *)
(* orderitems, customers and users collections.                            *)
(*                                                                         *)
(* Conventions.                                                            *)
(*  - A timestamp (createdAt) is a number of hours since                   *)
(*    2024-01-01T00:00Z, inside the year 2024.                             *)
(*  - $dateToString yields a tuple <<year, month, day>> or <<year, month>>;*)
(*    the zero-padded string "YYYY-MM-DD" orders exactly as the tuple.     *)
(*  - A field that MongoDB leaves out of a document is the value Null.     *)
(*  - MongoDB fixes neither the order in which a collection is scanned,    *)
(*    nor the order of the documents $group emits, nor the order of $sort  *)
(*    among equal keys: each is a choice among all the permutations.       *)
(***************************************************************************)
EXTENDS Integers, Sequences, FiniteSets, TLC

VARIABLES
    orders,      \* the orders collection: sequence of Order documents, _id = index
    orderitems,  \* the orderitems collection: set of OrderItems documents
    customers,   \* the customers collection: set of Customer documents
    users,       \* the users collection: set of documents with _id and name
    pc,          \* position of the request in the route: idle, adminOnly, handler, awaiting, done
    req,         \* the request in flight: [route, user]
    responses,   \* what res.status(..).json(..) has sent for the request in flight
    queries,     \* number of Order.aggregate calls issued for the request in flight
    console,     \* what console.error has logged for the request in flight
    lastOk       \* route and report of the most recent earlier successful response

vars == <<orders, orderitems, customers, users, pc, req, responses, queries, console, lastOk>>
store == <<orders, orderitems, customers, users>>

\* Largest number of documents in the orders collection.
MaxOrders == 2

Null == "null"

Statuses == {"pending", "confirmed", "cancelled", "completed"}

Routes == {"daily-sales", "monthly-sales", "order-status", "customer", "product"}

\* req.user as left by the token middleware: the two fields the code reads.
Users == [is_admin : BOOLEAN, role : {"admin", "customer"}]

\* Errors a rejected Order.aggregate promise may carry.
QueryErrors == {"MongoNetworkError: connection closed"}

NoRequest == [route |-> "none", user |-> [is_admin |-> FALSE, role |-> "customer"]]
NoReport == [route |-> "none", report |-> <<>>]

----------------------------------------------------------------------------
(* Generic helpers                                                         *)

Range(s) == {s[i] : i \in DOMAIN s}

Perms(n) == {p \in [1..n -> 1..n] : \A i, j \in 1..n : i # j => p[i] # p[j]}

Reorder(s, p) == [i \in DOMAIN s |-> s[p[i]]]

\* The orders a collection scan may deliver the documents of a sequence in.
Arrangements(s) == {Reorder(s, p) : p \in Perms(Len(s))}

\* The orders in which the documents of a set may be delivered.
SetArrangements(S) ==
    {s \in [1..Cardinality(S) -> S] : \A i, j \in DOMAIN s : i # j => s[i] # s[j]}

RECURSIVE SumSeq(_)
SumSeq(s) == IF s = <<>> THEN 0 ELSE s[1] + SumSeq(Tail(s))

MaxSeq(s) == CHOOSE m \in Range(s) : \A x \in Range(s) : x <= m

RECURSIVE Distinct(_)
Distinct(s) ==
    IF s = <<>> THEN <<>>
    ELSE LET n == Len(s)
             d == Distinct(SubSeq(s, 1, n - 1))
         IN IF s[n] \in Range(d) THEN d ELSE Append(d, s[n])

\* The documents of docs whose key is k, in arrival order.
Members(docs, keys, k) ==
    LET idx == SelectSeq([i \in DOMAIN docs |-> i], LAMBDA i : keys[i] = k)
    IN [j \in DOMAIN idx |-> docs[idx[j]]]

\* Lexicographic order on tuples of numbers of equal length.
LexLess(a, b) ==
    \E i \in DOMAIN a : /\ a[i] < b[i]
                        /\ \A j \in 1..(i - 1) : a[j] = b[j]

\* $sort ascending (1): keys[i] is the sort key of s[i], a tuple of numbers;
\* documents with equal keys keep the order they arrive in.
SortAscending(s, keys) ==
    LET p == CHOOSE q \in Perms(Len(s)) :
                 \A i, j \in DOMAIN s : i < j =>
                     \/ LexLess(keys[q[i]], keys[q[j]])
                     \/ (~LexLess(keys[q[j]], keys[q[i]]) /\ q[i] < q[j])
    IN Reorder(s, p)

\* $sort descending (-1).
SortDescending(s, keys) ==
    LET p == CHOOSE q \in Perms(Len(s)) :
                 \A i, j \in DOMAIN s : i < j =>
                     \/ LexLess(keys[q[j]], keys[q[i]])
                     \/ (~LexLess(keys[q[i]], keys[q[j]]) /\ q[i] < q[j])
    IN Reorder(s, p)

----------------------------------------------------------------------------
(* $dateToString on a createdAt timestamp (UTC)                            *)

DaysBeforeMonth == <<0, 31, 60, 91, 121, 152, 182, 213, 244, 274, 305, 335, 366>>

DayOfYear(ts) == ts \div 24

MonthOf(ts) ==
    CHOOSE m \in 1..12 : /\ DaysBeforeMonth[m] <= DayOfYear(ts)
                         /\ DayOfYear(ts) < DaysBeforeMonth[m + 1]

DayOfMonth(ts) == DayOfYear(ts) - DaysBeforeMonth[MonthOf(ts)] + 1

DateToString(format, ts) ==
    IF format = "%Y-%m-%d" THEN <<2024, MonthOf(ts), DayOfMonth(ts)>>
    ELSE <<2024, MonthOf(ts)>>

----------------------------------------------------------------------------
(* Pipeline stages                                                         *)

\* $match: { status: { $in: statuses } }
Match(docs, statuses) == SelectSeq(docs, LAMBDA o : o.status \in statuses)

\* $lookup from orderitems with foreignField order_id, localField _id;
\* iscan is the order in which the orderitems collection is read.
LookupByOrderId(o, iscan) == SelectSeq(iscan, LAMBDA it : it.order_id = o._id)

\* $lookup from orderitems with foreignField _id, localField items (an array
\* of references: a document matches when its _id is one of them).
LookupByItemRefs(o, iscan) == SelectSeq(iscan, LAMBDA it : it._id \in o.items)

\* $lookup from a collection keyed by _id: the matching documents.
LookupById(coll, id) == {d \in coll : d._id = id}

\* { $arrayElemAt: [array, 0] } and the field path read from its result.
ArrayElemAt0Field(S, f) == IF S = {} THEN Null ELSE (CHOOSE d \in S : TRUE)[f]

\* { $sum: "$orderItems.quantity" } over the joined array.
SumQuantity(items) == SumSeq([i \in DOMAIN items |-> items[i].quantity])

----------------------------------------------------------------------------
(* dailySalesReport: Order.aggregate pipeline                              *)

AllStatuses == {"completed", "pending", "confirmed", "cancelled"}

\* Variant of DailyJoined: the customer join followed by $unwind, which drops
\* the orders whose customer reference no users document answers.
DailyJoinedUnwind(scan, iscan) ==
    LET matched == SelectSeq(Match(scan, AllStatuses),
                       LAMBDA o : LookupById(users, o.customer_id) # {})
    IN [i \in DOMAIN matched |->
           [createdAt   |-> matched[i].createdAt,
            status      |-> matched[i].status,
            total_price |-> matched[i].total_price,
            items       |-> LookupByOrderId(matched[i], iscan),
            customer    |-> ArrayElemAt0Field(
                                LookupById(users, matched[i].customer_id), "name")]]

\* $match, the two $lookup stages and $addFields: one document per matched order.
DailyJoined(scan, iscan) ==
    LET matched == Match(scan, AllStatuses)
    IN [i \in DOMAIN matched |->
           [createdAt   |-> matched[i].createdAt,
            status      |-> matched[i].status,
            total_price |-> matched[i].total_price,
            items       |-> LookupByOrderId(matched[i], iscan),
            customer    |-> ArrayElemAt0Field(
                                LookupById(users, matched[i].customer_id), "name")]]

\* Variant of DailyGroups: totalSales taken with $first instead of $sum.
DailyGroupsFirstSale(scan, iscan) ==
    LET docs == DailyJoined(scan, iscan)
        keys == [i \in DOMAIN docs |-> DateToString("%Y-%m-%d", docs[i].createdAt)]
        ks   == Distinct(keys)
    IN [g \in DOMAIN ks |->
           LET m == Members(docs, keys, ks[g])
           IN [_id         |-> [date |-> ks[g]],
               orders      |-> [i \in DOMAIN m |->
                                   [customer |-> m[i].customer,
                                    status   |-> m[i].status,
                                    items    |-> m[i].items,
                                    total    |-> m[i].total_price]],
               totalOrders |-> Len(m),
               totalSales  |-> m[1].total_price]]

\* $group by day: the groups in order of first arrival.
DailyGroups(scan, iscan) ==
    LET docs == DailyJoined(scan, iscan)
        keys == [i \in DOMAIN docs |-> DateToString("%Y-%m-%d", docs[i].createdAt)]
        ks   == Distinct(keys)
    IN [g \in DOMAIN ks |->
           LET m == Members(docs, keys, ks[g])
           IN [_id         |-> [date |-> ks[g]],
               orders      |-> [i \in DOMAIN m |->
                                   [customer |-> m[i].customer,
                                    status   |-> m[i].status,
                                    items    |-> m[i].items,
                                    total    |-> m[i].total_price]],
               totalOrders |-> Len(m),
               totalSales  |-> SumSeq([i \in DOMAIN m |-> m[i].total_price])]]

\* { $sort: { _id: -1 } } on what $group emitted.
DailySorted(groups) ==
    SortDescending(groups, [i \in DOMAIN groups |-> groups[i]._id.date])

\* Every report the pipeline may return on the current store.
DailyReports ==
    UNION { UNION { {DailySorted(Reorder(DailyGroups(scan, iscan), gp)) :
                         gp \in Perms(Len(DailyGroups(scan, iscan)))} :
                    iscan \in SetArrangements(orderitems) } :
            scan \in Arrangements(orders) }

----------------------------------------------------------------------------
(* monthlySalesReport: Order.aggregate pipeline                            *)

\* Variant of MonthlyGroups: the $match keeps completed orders only.
MonthlyGroupsCompletedOnly(scan) ==
    LET docs == Match(scan, {"completed"})
        keys == [i \in DOMAIN docs |-> DateToString("%Y-%m", docs[i].createdAt)]
        ks   == Distinct(keys)
    IN [g \in DOMAIN ks |->
           LET m == Members(docs, keys, ks[g])
           IN [_id         |-> ks[g],
               totalOrders |-> Len(m),
               totalSales  |-> SumSeq([i \in DOMAIN m |-> m[i].total_price])]]

MonthlyGroups(scan) ==
    LET docs == Match(scan, AllStatuses)
        keys == [i \in DOMAIN docs |-> DateToString("%Y-%m", docs[i].createdAt)]
        ks   == Distinct(keys)
    IN [g \in DOMAIN ks |->
           LET m == Members(docs, keys, ks[g])
           IN [_id         |-> ks[g],
               totalOrders |-> Len(m),
               totalSales  |-> SumSeq([i \in DOMAIN m |-> m[i].total_price])]]

MonthlySorted(groups) ==
    SortDescending(groups, [i \in DOMAIN groups |-> groups[i]._id])

MonthlyReports ==
    UNION { {MonthlySorted(Reorder(MonthlyGroups(scan), gp)) :
                 gp \in Perms(Len(MonthlyGroups(scan)))} :
            scan \in Arrangements(orders) }

----------------------------------------------------------------------------
(* orderStatusReport: Order.aggregate pipeline and the array -> object step *)

\* Variant of StatusGroups: totalSpent taken with $max instead of $sum.
StatusGroupsMaxSpent(scan, iscan) ==
    LET matched == Match(scan, {"pending", "completed", "confirmed", "cancelled"})
        docs == [i \in DOMAIN matched |->
                    [status      |-> matched[i].status,
                     customer_id |-> matched[i].customer_id,
                     total_price |-> matched[i].total_price,
                     createdAt   |-> matched[i].createdAt,
                     orderItems  |-> LookupByOrderId(matched[i], iscan)]]
        keys == [i \in DOMAIN docs |->
                    [status |-> docs[i].status, customerId |-> docs[i].customer_id]]
        ks   == Distinct(keys)
    IN [g \in DOMAIN ks |->
           LET m == Members(docs, keys, ks[g])
           IN [_id           |-> ks[g],
               totalOrders   |-> Len(m),
               totalItems    |-> SumSeq([i \in DOMAIN m |-> SumQuantity(m[i].orderItems)]),
               totalSpent    |-> MaxSeq([i \in DOMAIN m |-> m[i].total_price]),
               lastOrderDate |-> MaxSeq([i \in DOMAIN m |-> m[i].createdAt])]]

\* First $group, by status and customer reference, in order of first arrival.
StatusGroups(scan, iscan) ==
    LET matched == Match(scan, {"pending", "completed", "confirmed", "cancelled"})
        docs == [i \in DOMAIN matched |->
                    [status      |-> matched[i].status,
                     customer_id |-> matched[i].customer_id,
                     total_price |-> matched[i].total_price,
                     createdAt   |-> matched[i].createdAt,
                     orderItems  |-> LookupByOrderId(matched[i], iscan)]]
        keys == [i \in DOMAIN docs |->
                    [status |-> docs[i].status, customerId |-> docs[i].customer_id]]
        ks   == Distinct(keys)
    IN [g \in DOMAIN ks |->
           LET m == Members(docs, keys, ks[g])
           IN [_id           |-> ks[g],
               totalOrders   |-> Len(m),
               totalItems    |-> SumSeq([i \in DOMAIN m |-> SumQuantity(m[i].orderItems)]),
               totalSpent    |-> SumSeq([i \in DOMAIN m |-> m[i].total_price]),
               lastOrderDate |-> MaxSeq([i \in DOMAIN m |-> m[i].createdAt])]]

\* $lookup from customers followed by $unwind "$customer": refs[i] is the
\* localField of groups[i]; a group without a matching customer document is
\* dropped.
UnwindCustomer(groups, refs) ==
    LET kept == SelectSeq([i \in DOMAIN groups |-> i],
                    LAMBDA i : LookupById(customers, refs[i]) # {})
    IN [j \in DOMAIN kept |->
           [group    |-> groups[kept[j]],
            customer |-> CHOOSE c \in LookupById(customers, refs[kept[j]]) : TRUE]]

\* The customer summary that $project shapes and the final stages carry.
Summary(d) ==
    [customer_id   |-> d.customer._id,
     fullName      |-> d.customer.fullName,
     email         |-> d.customer.email,
     phone         |-> d.customer.phone,
     totalOrders   |-> d.group.totalOrders,
     totalItems    |-> d.group.totalItems,
     totalSpent    |-> d.group.totalSpent,
     lastOrderDate |-> d.group.lastOrderDate]

\* $lookup followed by $unwind with preserveNullAndEmptyArrays: a left join.
KeepCustomer(groups, refs) ==
    [i \in DOMAIN groups |->
        [group    |-> groups[i],
         customer |-> IF LookupById(customers, refs[i]) # {}
                      THEN CHOOSE c \in LookupById(customers, refs[i]) : TRUE
                      ELSE [_id |-> Null, fullName |-> Null, email |-> Null,
                            phone |-> Null]]]

\* Position of a status string in ascending string order.
StatusRank(s) ==
    CHOOSE i \in 1..4 : <<"cancelled", "completed", "confirmed", "pending">>[i] = s

\* Variant of StatusRows: the customer join keeps the groups it cannot match.
StatusRowsLeftJoin(groups) ==
    LET docs == KeepCustomer(groups,
                    [i \in DOMAIN groups |-> groups[i]._id.customerId])
        keys == [i \in DOMAIN docs |-> docs[i].group._id.status]
        ks   == Distinct(keys)
        rows == [g \in DOMAIN ks |->
                    LET m == Members(docs, keys, ks[g])
                    IN [_id   |-> ks[g],
                        users |-> [i \in DOMAIN m |-> Summary(m[i])]]]
    IN SortAscending(rows, [i \in DOMAIN rows |-> <<StatusRank(rows[i]._id)>>])

\* Second $group, by status, pushing the summaries in arrival order, then
\* { $sort: { _id: 1 } }.
StatusRows(groups) ==
    LET docs == UnwindCustomer(groups,
                    [i \in DOMAIN groups |-> groups[i]._id.customerId])
        keys == [i \in DOMAIN docs |-> docs[i].group._id.status]
        ks   == Distinct(keys)
        rows == [g \in DOMAIN ks |->
                    LET m == Members(docs, keys, ks[g])
                    IN [_id   |-> ks[g],
                        users |-> [i \in DOMAIN m |-> Summary(m[i])]]]
    IN SortAscending(rows, [i \in DOMAIN rows |-> <<StatusRank(rows[i]._id)>>])

\* report.forEach((r) => { formatted[r._id] = r.users; })
Formatted(rows) ==
    [s \in {rows[i]._id : i \in DOMAIN rows} |->
        (CHOOSE r \in Range(rows) : r._id = s).users]

StatusReports ==
    UNION { UNION { {Formatted(StatusRows(Reorder(StatusGroups(scan, iscan), gp))) :
                         gp \in Perms(Len(StatusGroups(scan, iscan)))} :
                    iscan \in SetArrangements(orderitems) } :
            scan \in Arrangements(orders) }

----------------------------------------------------------------------------
(* userOrderReport: Order.aggregate pipeline                               *)

\* Variant of CustomerGroups: the $match of the order-status report, which
\* keeps pending and cancelled orders too.
CustomerGroupsAllStatuses(scan, iscan) ==
    LET matched == Match(scan, AllStatuses)
        docs == [i \in DOMAIN matched |->
                    [customer_id |-> matched[i].customer_id,
                     total_price |-> matched[i].total_price,
                     createdAt   |-> matched[i].createdAt,
                     orderItems  |-> LookupByItemRefs(matched[i], iscan)]]
        keys == [i \in DOMAIN docs |-> docs[i].customer_id]
        ks   == Distinct(keys)
    IN [g \in DOMAIN ks |->
           LET m == Members(docs, keys, ks[g])
           IN [_id           |-> ks[g],
               totalOrders   |-> Len(m),
               totalItems    |-> SumSeq([i \in DOMAIN m |-> SumQuantity(m[i].orderItems)]),
               totalSpent    |-> SumSeq([i \in DOMAIN m |-> m[i].total_price]),
               lastOrderDate |-> MaxSeq([i \in DOMAIN m |-> m[i].createdAt])]]

\* $group by customer reference, in order of first arrival.
CustomerGroups(scan, iscan) ==
    LET matched == Match(scan, {"completed", "confirmed"})
        docs == [i \in DOMAIN matched |->
                    [customer_id |-> matched[i].customer_id,
                     total_price |-> matched[i].total_price,
                     createdAt   |-> matched[i].createdAt,
                     orderItems  |-> LookupByItemRefs(matched[i], iscan)]]
        keys == [i \in DOMAIN docs |-> docs[i].customer_id]
        ks   == Distinct(keys)
    IN [g \in DOMAIN ks |->
           LET m == Members(docs, keys, ks[g])
           IN [_id           |-> ks[g],
               totalOrders   |-> Len(m),
               totalItems    |-> SumSeq([i \in DOMAIN m |-> SumQuantity(m[i].orderItems)]),
               totalSpent    |-> SumSeq([i \in DOMAIN m |-> m[i].total_price]),
               lastOrderDate |-> MaxSeq([i \in DOMAIN m |-> m[i].createdAt])]]

\* $lookup, $unwind, $project and { $sort: { totalSpent: -1 } }.
CustomerRows(groups) ==
    LET docs == UnwindCustomer(groups, [i \in DOMAIN groups |-> groups[i]._id])
        rows == [i \in DOMAIN docs |-> Summary(docs[i])]
    IN SortDescending(rows, [i \in DOMAIN rows |-> <<rows[i].totalSpent>>])

CustomerReports ==
    UNION { UNION { {CustomerRows(Reorder(CustomerGroups(scan, iscan), gp)) :
                         gp \in Perms(Len(CustomerGroups(scan, iscan)))} :
                    iscan \in SetArrangements(orderitems) } :
            scan \in Arrangements(orders) }

----------------------------------------------------------------------------
(* userProductReport: Order.aggregate pipeline                             *)

RECURSIVE Flatten(_)
Flatten(ss) == IF ss = <<>> THEN <<>> ELSE ss[1] \o Flatten(Tail(ss))

\* Variant of ProductUnwound: the join of the daily report, on order_id.
ProductUnwoundByOrderId(scan, iscan) ==
    LET matched == Match(scan, {"completed", "confirmed"})
    IN Flatten([i \in DOMAIN matched |-> LookupByOrderId(matched[i], iscan)])

\* $match, $lookup and { $unwind: "$orderItems" }: one document per joined
\* order-item, an order without joined items giving none.
ProductUnwound(scan, iscan) ==
    LET matched == Match(scan, {"completed", "confirmed"})
    IN Flatten([i \in DOMAIN matched |-> LookupByItemRefs(matched[i], iscan)])

\* $group by product_id, in order of first arrival; the orderitems schema has
\* no name and no category, so their $first is left out of the row.
ProductGroups(scan, iscan) ==
    LET docs == ProductUnwound(scan, iscan)
        keys == [i \in DOMAIN docs |-> docs[i].product_id]
        ks   == Distinct(keys)
    IN [g \in DOMAIN ks |->
           LET m == Members(docs, keys, ks[g])
           IN [_id         |-> ks[g],
               product_id  |-> m[1].product_id,
               name        |-> Null,
               category    |-> Null,
               unit_price  |-> m[1].unit_price,
               quantity    |-> SumSeq([i \in DOMAIN m |-> m[i].quantity]),
               total_price |-> SumSeq([i \in DOMAIN m |-> m[i].total_price])]]

\* { $sort: { quantity: -1 } }
ProductRows(groups) ==
    SortDescending(groups, [i \in DOMAIN groups |-> <<groups[i].quantity>>])

ProductReports ==
    UNION { UNION { {ProductRows(Reorder(ProductGroups(scan, iscan), gp)) :
                         gp \in Perms(Len(ProductGroups(scan, iscan)))} :
                    iscan \in SetArrangements(orderitems) } :
            scan \in Arrangements(orders) }

----------------------------------------------------------------------------
(* The route: router.get(path, authenticateTokenAdmin, adminOnly, handler) *)

Send(status, body) == Append(responses, [status |-> status, body |-> body])

IsSuccess(r) == r.status = 200 /\ "report" \in DOMAIN r.body

\* A request reaches adminOnly once the token middleware has set req.user.
\* The report of the request before it, if it succeeded, is remembered.
Request ==
    /\ pc \in {"idle", "done"}
    /\ \E route \in Routes, user \in Users :
           req' = [route |-> route, user |-> user]
    /\ pc' = "adminOnly"
    /\ responses' = <<>>
    /\ queries' = 0
    /\ console' = <<>>
    /\ lastOk' = IF Len(responses) = 1 /\ IsSuccess(responses[1])
                 THEN [route |-> req.route, report |-> responses[1].body.report]
                 ELSE lastOk
    /\ UNCHANGED store

\* adminOnly(req, res, next)
adminOnly ==
    /\ pc = "adminOnly"
    /\ IF req.user.role # "admin"
       THEN /\ responses' = Send(403, [message |-> "Forbidden: Admin only"])
            /\ pc' = "done"
       ELSE /\ responses' = responses
            /\ pc' = "handler"
    /\ UNCHANGED <<store, req, queries, console, lastOk>>

\* Variant of AdminCheck: the is_admin flag is not looked at.
AdminCheckRoleOnly(user) ==
    IF user.role # "admin" THEN "forbidden" ELSE "ok"

\* The two checks every handler starts with: "denied" and "forbidden" are
\* its two 403 returns, "ok" lets it go on to Order.aggregate.
AdminCheck(user) ==
    IF ~user.is_admin THEN "denied"
    ELSE IF user.role # "admin" THEN "forbidden"
    ELSE "ok"

\* Variant of CatchBody: the error's own message is sent.
CatchBodyLeaks(text, err) == [error |-> err]

\* The body of the catch block: a fixed text per handler.
CatchBody(text, err) == [error |-> text]

\* A handler up to its await: the admin checks, then the call of Order.aggregate.
HandlerBegin(route) ==
    /\ pc = "handler"
    /\ req.route = route
    /\ CASE AdminCheck(req.user) = "denied" ->
              /\ responses' = Send(403, [error |-> "Access denied"])
              /\ pc' = "done"
              /\ queries' = queries
         [] AdminCheck(req.user) = "forbidden" ->
              /\ responses' = Send(403, [message |-> "Forbidden"])
              /\ pc' = "done"
              /\ queries' = queries
         [] OTHER ->
              /\ responses' = responses
              /\ pc' = "awaiting"
              /\ queries' = queries + 1
    /\ UNCHANGED <<store, req, console, lastOk>>

\* A handler after its await: res.json of the report when the promise is
\* fulfilled, the catch block when it is rejected.
HandlerResume(route, reports, text) ==
    /\ pc = "awaiting"
    /\ req.route = route
    /\ \/ \E report \in reports :
              /\ responses' = Send(200, [success |-> TRUE, report |-> report])
              /\ console' = console
       \/ \E err \in QueryErrors :
              /\ responses' = Send(500, CatchBody(text, err))
              /\ console' = Append(console, err)
    /\ pc' = "done"
    /\ UNCHANGED <<store, req, queries, lastOk>>

dailySalesReport ==
    \/ HandlerBegin("daily-sales")
    \/ HandlerResume("daily-sales", DailyReports, "Report error")

monthlySalesReport ==
    \/ HandlerBegin("monthly-sales")
    \/ HandlerResume("monthly-sales", MonthlyReports,
                     "Failed to generate monthly sales report")

orderStatusReport ==
    \/ HandlerBegin("order-status")
    \/ HandlerResume("order-status", StatusReports, "Failed to generate user report")

userOrderReport ==
    \/ HandlerBegin("customer")
    \/ HandlerResume("customer", CustomerReports, "Failed to generate user report")

userProductReport ==
    \/ HandlerBegin("product")
    \/ HandlerResume("product", ProductReports,
                     "Failed to generate user product report")

Next ==
    \/ Request
    \/ adminOnly
    \/ dailySalesReport
    \/ monthlySalesReport
    \/ orderStatusReport
    \/ userOrderReport
    \/ userProductReport

----------------------------------------------------------------------------------------------------------------------------------------
(* Stores the service may find                                             *)
(*                                                                         *)
(* The service only reads. Three families of stores are explored, each     *)
(* varying the fields some of the reports depend on. Where no order-item   *)
(* refers to an order by its _id, the _id of an order is immaterial and    *)
(* the orders are listed in one order only (every scan order is explored   *)
(* by the pipelines anyway).                                               *)

Customers ==
    {[_id |-> "c1", fullName |-> "Alice", email |-> "alice@x.io", phone |-> "011"],
     [_id |-> "c2", fullName |-> "Bob", email |-> "bob@x.io", phone |-> "012"]}

Order(customer, status, price, ts, refs) ==
    [customer_id |-> customer, status |-> status, total_price |-> price,
     createdAt |-> ts, items |-> refs]

WithId(sh, i) ==
    [_id |-> i, customer_id |-> sh.customer_id, status |-> sh.status,
     total_price |-> sh.total_price, createdAt |-> sh.createdAt, items |-> sh.items]

Item(id, order, product, quantity, unit) ==
    [_id |-> id, order_id |-> order, product_id |-> product, quantity |-> quantity,
     unit_price |-> unit, total_price |-> quantity * unit]

\* Collections of at most MaxOrders orders drawn from a list of shapes.
OrderLists(shapes) ==
    UNION { {[i \in 1..n |-> WithId(shapes[f[i]], i)] :
                 f \in {g \in [1..n -> DOMAIN shapes] :
                            \A i \in 1..(n - 1) : g[i] <= g[i + 1]}} :
            n \in 0..MaxOrders }

OrderCollections(shapes) ==
    UNION { {[i \in 1..n |-> WithId(shapes[f[i]], i)] : f \in [1..n -> DOMAIN shapes]} :
            n \in 0..MaxOrders }

\* Completed orders of one customer: creation times on the same day, the next
\* day and the next month (hours 0 and 23 of January 1st, January 2nd,
\* February 1st), two prices.
CalendarShapes ==
    LET ts == <<0, 23, 24, 744>>
        price == <<10, 25>>
    IN [k \in 1..8 |->
           Order("c1", "completed", price[((k - 1) % 2) + 1], ts[((k - 1) \div 2) + 1], {})]

\* Every status for two customers and for a reference (c9) that no customer
\* document answers.
StatusShapes ==
    LET cust == <<"c1", "c2", "c9">>
        status == <<"pending", "confirmed", "cancelled", "completed">>
    IN [k \in 1..12 |->
           LET st == status[((k - 1) % 4) + 1]
           IN Order(cust[((k - 1) \div 4) + 1], st,
                    IF st = "completed" THEN 25 ELSE 10,
                    IF st = "confirmed" THEN 24 ELSE 0, {})]

\* Orders with item references, counted or not by the two narrower reports.
\* The pending ones are created a day after the completed ones.
ItemShapes ==
    LET status == <<"completed", "pending">>
        refs == <<{}, {1}, {1, 2}>>
    IN [k \in 1..6 |->
           LET st == status[((k - 1) % 2) + 1]
           IN Order("c1", st, 10, IF st = "pending" THEN 24 ELSE 0,
                    refs[((k - 1) \div 2) + 1])]

\* Two items of one product at different unit prices; two products selling
\* the same quantity.
ItemCollections ==
    { {Item(1, 1, "P1", 2, 5), Item(2, 1, "P1", 1, 7)},
      {Item(1, 1, "P1", 2, 5), Item(2, 1, "P2", 2, 4)} }

InitRequest ==
    /\ pc = "idle"
    /\ req = NoRequest
    /\ responses = <<>>
    /\ queries = 0
    /\ console = <<>>
    /\ lastOk = NoReport

Init ==
    /\ InitRequest
    /\ customers = Customers
    /\ \/ /\ orders \in OrderLists(CalendarShapes) \cup OrderLists(StatusShapes)
          /\ orderitems = {}
          /\ users = {}
       \/ /\ orders \in OrderCollections(ItemShapes)
          /\ orderitems \in ItemCollections
          /\ users = {[_id |-> "c1", name |-> "Alice"]}

Spec == Init /\ [][Next]_vars

----------------------------------------------------------------------------
(* Properties                                                              *)

\* The request in flight has been answered with the report of the route.
Succeeded(route) ==
    /\ pc = "done"
    /\ req.route = route
    /\ Len(responses) = 1
    /\ IsSuccess(responses[1])

Report == responses[1].body.report

IsAdmin(user) == user.is_admin /\ user.role = "admin"

\* Sum of val[k] over the orders k of the set K.
SumOrders(K, val) ==
    SumSeq([k \in DOMAIN orders |-> IF k \in K THEN val[k] ELSE 0])

Prices == [k \in DOMAIN orders |-> orders[k].total_price]

RECURSIVE QuantityOf(_)
QuantityOf(S) ==
    IF S = {} THEN 0
    ELSE LET x == CHOOSE y \in S : TRUE IN x.quantity + QuantityOf(S \ {x})

\* The order-items an order refers to through its items array.
Referenced(o) == {it \in orderitems : it._id \in o.items}

Counted(o) == o.status \in {"completed", "confirmed"}

CustomerIds == {c._id : c \in customers}

\* C1. Daily Sales: the buckets carry distinct days; every order with one of
\* the four statuses falls in the bucket of the day of its createdAt, with
\* or without items or a matching customer; a bucket's totalOrders is the
\* number of those orders of its day, and the totalOrders of all the buckets
\* add up to the number of orders with one of the four statuses.
C1_DailyCountsEachOrderOnce ==
    Succeeded("daily-sales") =>
        LET Day(k) == DateToString("%Y-%m-%d", orders[k].createdAt)
            InFilter == {k \in DOMAIN orders : orders[k].status \in Statuses}
        IN /\ \A i, j \in DOMAIN Report :
                  i # j => Report[i]._id.date # Report[j]._id.date
           /\ \A k \in InFilter :
                  \E i \in DOMAIN Report : Report[i]._id.date = Day(k)
           /\ \A i \in DOMAIN Report :
                  /\ Report[i].totalOrders =
                         Cardinality({k \in InFilter : Day(k) = Report[i]._id.date})
                  /\ Len(Report[i].orders) = Report[i].totalOrders
           /\ SumSeq([i \in DOMAIN Report |-> Report[i].totalOrders]) =
                  Cardinality(InFilter)

\* Two orders of one day, created at different hours, without items and
\* without a users document for their customer, are reported in one bucket.
C1_Witness ==
    /\ Succeeded("daily-sales")
    /\ Len(orders) = 2
    /\ orders[1].createdAt # orders[2].createdAt
    /\ Len(Report) = 1
    /\ Report[1].totalOrders = 2
    /\ \A i \in 1..2 : /\ Report[1].orders[i].customer = Null
                       /\ Report[1].orders[i].items = <<>>

\* C2. Monthly Sales: every returned month bucket has, as totalSales, the sum
\* of total_price over exactly the orders created in that month and, as
\* totalOrders, their number.
C2_MonthlyTotals ==
    Succeeded("monthly-sales") =>
        \A i \in DOMAIN Report :
            LET InMonth == {k \in DOMAIN orders :
                               DateToString("%Y-%m", orders[k].createdAt) = Report[i]._id}
            IN /\ Report[i].totalSales = SumOrders(InMonth, Prices)
               /\ Report[i].totalOrders = Cardinality(InMonth)

\* Two months are reported, newest first, each with the price of its order.
C2_Witness ==
    /\ Succeeded("monthly-sales")
    /\ Len(Report) = 2
    /\ Report[1]._id = <<2024, 2>>
    /\ Report[2]._id = <<2024, 1>>
    /\ Report[1].totalSales # Report[2].totalSales

\* C3. Order-Status: every summary under a status belongs to a customer
\* document and to a customer with an order of that status; a (status,
\* customer reference) group that no customer document answers appears
\* nowhere; the keys of the map are exactly the statuses with at least one
\* answered group, so no key carries an empty list.
C3_StatusDropsUnmatched ==
    Succeeded("order-status") =>
        LET Has(st, id) == \E k \in DOMAIN orders :
                               orders[k].status = st /\ orders[k].customer_id = id
        IN /\ DOMAIN Report = {st \in Statuses : \E id \in CustomerIds : Has(st, id)}
           /\ \A st \in DOMAIN Report :
                  /\ Report[st] # <<>>
                  /\ {Report[st][i].customer_id : i \in DOMAIN Report[st]} =
                         {id \in CustomerIds : Has(st, id)}
                  /\ Len(Report[st]) = Cardinality({id \in CustomerIds : Has(st, id)})

\* An order of the unanswered reference c9 has a status of its own, which is
\* absent from the map, next to a status that is present.
C3_Witness ==
    /\ Succeeded("order-status")
    /\ \E k \in DOMAIN orders :
           /\ orders[k].customer_id = "c9"
           /\ orders[k].status \notin DOMAIN Report
    /\ DOMAIN Report # {}

\* C4. Customer-Order: one row per customer document with a completed or
\* confirmed order and none for any other customer; a row's totalOrders,
\* totalItems, totalSpent and lastOrderDate are the count, the referenced
\* item quantities, the total_price sum and the latest createdAt of that
\* customer's completed and confirmed orders alone.
C4_CustomerCountsCompletedConfirmed ==
    Succeeded("customer") =>
        LET Mine(id) == {k \in DOMAIN orders :
                            Counted(orders[k]) /\ orders[k].customer_id = id}
            Active == {id \in CustomerIds : Mine(id) # {}}
        IN /\ {Report[i].customer_id : i \in DOMAIN Report} = Active
           /\ Len(Report) = Cardinality(Active)
           /\ \A i \in DOMAIN Report :
                  LET mine == Mine(Report[i].customer_id)
                  IN /\ Report[i].totalOrders = Cardinality(mine)
                     /\ Report[i].totalSpent = SumOrders(mine, Prices)
                     /\ Report[i].totalItems =
                            SumOrders(mine, [k \in DOMAIN orders |->
                                                QuantityOf(Referenced(orders[k]))])
                     /\ \E k \in mine : Report[i].lastOrderDate = orders[k].createdAt
                     /\ \A k \in mine : orders[k].createdAt <= Report[i].lastOrderDate

\* A customer with a completed and a pending order is reported with one
\* order, while a customer with cancelled or pending orders only is not.
C4_Witness ==
    /\ Succeeded("customer")
    /\ Len(Report) = 1
    /\ Report[1].totalOrders = 1
    /\ \E k \in DOMAIN orders :
           /\ ~Counted(orders[k])
           /\ orders[k].customer_id \in CustomerIds

\* C5, as stated. A row's quantity is the sum of the quantities of the
\* order-items of its product that belong to a completed or confirmed order,
\* each item taken once, whether an item belongs to the orders whose items
\* array refers to it or to the order its order_id names.
C5_ProductQuantityPerItem ==
    Succeeded("product") =>
        LET counted == {k \in DOMAIN orders : Counted(orders[k])}
        IN \A i \in DOMAIN Report :
               LET mine == {it \in orderitems : it.product_id = Report[i].product_id}
                   referred == {it \in mine : \E k \in counted : it._id \in orders[k].items}
                   owned == {it \in mine : \E k \in counted : it.order_id = orders[k]._id}
               IN \/ Report[i].quantity = QuantityOf(referred)
                  \/ Report[i].quantity = QuantityOf(owned)

\* C5, amended. One row per product id among the order-items that the items
\* arrays of completed and confirmed orders refer to; a row's quantity is
\* the sum, over those orders and the items each of them refers to, of the
\* item quantity: an item that several such orders refer to is taken once
\* per order, and its order_id is not consulted.
C5_ProductQuantityPerReference ==
    Succeeded("product") =>
        LET Sold(p, o) == {it \in Referenced(o) : it.product_id = p}
            counted == {k \in DOMAIN orders : Counted(orders[k])}
            Products == {it.product_id : it \in
                            UNION {Referenced(orders[k]) : k \in counted}}
        IN /\ {Report[i].product_id : i \in DOMAIN Report} = Products
           /\ Len(Report) = Cardinality(Products)
           /\ \A i \in DOMAIN Report :
                  Report[i].quantity =
                      SumOrders(counted,
                                [k \in DOMAIN orders |->
                                    QuantityOf(Sold(Report[i].product_id, orders[k]))])

\* Two completed orders refer to the same item of quantity 2, one of them to
\* a second item of quantity 1 as well: the product is reported with 5.
C5_Witness ==
    /\ Succeeded("product")
    /\ Len(orders) = 2
    /\ \A k \in 1..2 : Counted(orders[k]) /\ 1 \in orders[k].items
    /\ Len(Report) = 1
    /\ Report[1].quantity = 5

\* C6. A caller who is not an admin gets exactly one response, a 403, and no
\* query is issued for the request; a query is only ever issued for a caller
\* who passed the admin checks.
C6_ForbiddenBeforeAnyQuery ==
    /\ queries > 0 => IsAdmin(req.user)
    /\ (pc = "done" /\ ~IsAdmin(req.user)) =>
           /\ Len(responses) = 1
           /\ responses[1].status = 403
           /\ queries = 0

\* A caller with the admin role and without the is_admin flag passes the
\* middleware and is turned away by the handler.
C6_Witness ==
    /\ pc = "done"
    /\ req.user.role = "admin"
    /\ ~req.user.is_admin
    /\ responses = <<[status |-> 403, body |-> [error |-> "Access denied"]]>>
    /\ queries = 0

\* C7. Every response is the success envelope {success: true, report} or a
\* failure envelope whose message is under the key error.
C7_FailuresUnderErrorKey ==
    \A i \in DOMAIN responses :
        \/ /\ DOMAIN responses[i].body = {"success", "report"}
           /\ responses[i].body.success
        \/ DOMAIN responses[i].body = {"error"}

\* C8. When the query of an admin's request fails, exactly one response is
\* sent, with status 500, an error text that is not the error of the query
\* and no report, and the query is issued once.
C8_QueryFailureIsOpaque ==
    (pc = "done" /\ console # <<>>) =>
        /\ IsAdmin(req.user)
        /\ Len(responses) = 1
        /\ responses[1].status = 500
        /\ DOMAIN responses[1].body = {"error"}
        /\ responses[1].body.error \notin Range(console)
        /\ queries = 1

\* The query of the order-status report has failed.
C8_Witness ==
    /\ pc = "done"
    /\ req.route = "order-status"
    /\ console \in Seq(QueryErrors)
    /\ Len(console) = 1
    /\ responses[1].status = 500

\* A list as the bag of its elements.
BagOf(s) == [x \in Range(s) |-> Cardinality({i \in DOMAIN s : s[i] = x})]

\* A report with everything dropped that depends on the order in which
\* documents reach a stage: the order of pushed lists and of joined arrays,
\* the order of rows (their sort keys stay in sequence), and the unit_price
\* that $first takes for a product.
UpToOrder(route, rep) ==
    CASE route = "daily-sales" ->
           [i \in DOMAIN rep |->
               [_id         |-> rep[i]._id,
                totalOrders |-> rep[i].totalOrders,
                totalSales  |-> rep[i].totalSales,
                orders      |-> BagOf([j \in DOMAIN rep[i].orders |->
                                   [customer |-> rep[i].orders[j].customer,
                                    status   |-> rep[i].orders[j].status,
                                    items    |-> Range(rep[i].orders[j].items),
                                    total    |-> rep[i].orders[j].total]])]]
      [] route = "monthly-sales" -> rep
      [] route = "order-status" -> [st \in DOMAIN rep |-> BagOf(rep[st])]
      [] route = "customer" ->
           [rows |-> BagOf(rep),
            keys |-> [i \in DOMAIN rep |-> rep[i].totalSpent]]
      [] route = "product" ->
           [rows |-> BagOf([i \in DOMAIN rep |->
                         [_id         |-> rep[i]._id,
                          product_id  |-> rep[i].product_id,
                          name        |-> rep[i].name,
                          category    |-> rep[i].category,
                          quantity    |-> rep[i].quantity,
                          total_price |-> rep[i].total_price]]),
            keys |-> [i \in DOMAIN rep |-> rep[i].quantity]]

\* The request in flight repeats the route of the last successful request.
Repeated(route) == Succeeded(route) /\ lastOk.route = route

\* C9, as stated. A report called twice on unchanged collections returns the
\* same output, the order of rows and of pushed elements included.
C9_RepeatedReportIdentical ==
    \A route \in Routes : Repeated(route) => Report = lastOk.report

\* C9, amended. A report called twice on unchanged collections returns the
\* same rows with the same values and the same sequence of sort keys; the
\* two outputs may differ in the order of rows with equal sort keys, in the
\* order of pushed and joined lists and in the unit_price of a product row.
\* No step of any request changes the collections.
C9_RepeatedReportSameUpToOrder ==
    /\ [](\A route \in Routes :
              Repeated(route) => UpToOrder(route, Report) = UpToOrder(route, lastOk.report))
    /\ [][store' = store]_vars

\* The daily report is returned twice with its pushed orders in two orders.
C9_Witness ==
    /\ Repeated("daily-sales")
    /\ Report # lastOk.report
    /\ Len(Report) = 1
    /\ Len(Report[1].orders) = 2

\* C10. On one store, the Customer-Order report has a row for a customer
\* exactly when the Order-Status report lists that customer under completed
\* or confirmed, and the row's totalOrders and totalSpent are the sums of
\* those of the customer's summaries under the two keys.
C10_CustomerAgreesWithStatus ==
    LET Holds(cust, stat) ==
            LET Under(st) == IF st \in DOMAIN stat THEN stat[st] ELSE <<>>
                Both == Under("completed") \o Under("confirmed")
                Of(id) == SelectSeq(Both, LAMBDA u : u.customer_id = id)
            IN /\ {cust[i].customer_id : i \in DOMAIN cust} =
                      {Both[i].customer_id : i \in DOMAIN Both}
               /\ \A i \in DOMAIN cust :
                      LET mine == Of(cust[i].customer_id)
                      IN /\ cust[i].totalOrders =
                                SumSeq([j \in DOMAIN mine |-> mine[j].totalOrders])
                         /\ cust[i].totalSpent =
                                SumSeq([j \in DOMAIN mine |-> mine[j].totalSpent])
    IN /\ (Succeeded("customer") /\ lastOk.route = "order-status") =>
              Holds(Report, lastOk.report)
       /\ (Succeeded("order-status") /\ lastOk.route = "customer") =>
              Holds(lastOk.report, Report)

\* A customer with a completed and a confirmed order has one row of two
\* orders in the Customer-Order report, read after the Order-Status report.
C10_Witness ==
    /\ Succeeded("customer")
    /\ lastOk.route = "order-status"
    /\ {"completed", "confirmed"} \subseteq DOMAIN lastOk.report
    /\ Len(Report) = 1
    /\ Report[1].totalOrders = 2
    /\ Report[1].totalSpent = 35

====
